---- MODULE Spec2Model ----
(***************************************************************************)
(* Model of logger.py: the USB serial data logger.                         *)
(*                                                                         *)
(* main() polls find_esp32_port() every GRACE_CHECK_INTERVAL and keeps the *)
(* session state (session_active, grace_period_end); a located device      *)
(* makes it call start_logging_session(), which blocks: it copies the      *)
(* bytes of the serial channel to a log file until the device path is gone *)
(* and then keeps reading for POST_DISCONNECT_FLUSH_DELAY.                 *)
(*                                                                         *)
(* Time is counted in units of GRACE_CHECK_INTERVAL (0.1 s) and advances   *)
(* only in the sleeps of the code.  The environment plugs and unplugs the  *)
(* device, delivers bytes to the open channel, and makes I/O calls fail.   *)
(* Optional values (None or a value) are sequences of length 0 or 1, and   *)
(* character strings that the code inspects are tuples of characters.      *)
(***************************************************************************)
EXTENDS Integers, Sequences, FiniteSets, TLC

\* ------------------------------------------------------------------ bounds
MaxTime == 30       \* the clock stops here
MaxJitter == 1      \* a sleep of the main loop may overrun by this much
MaxBytes == 1       \* bytes the device sends during one capture invocation
MaxIssues == 1      \* I/O failures the environment injects
MaxPorts == 2       \* ports in a list handed to find_esp32_port alone

\* ------------------------------------------------------- program constants
TicksPerSecond == 10            \* 1 / GRACE_CHECK_INTERVAL
SESSION_GRACE_PERIOD == 2       \* seconds
POST_DISCONNECT_FLUSH_DELAY == 1  \* seconds
VENDOR_ID == <<"3", "0", "3", "a">>
MANUFACTURER_NAME == <<"E", "s", "p", "r", "e", "s", "s", "i", "f">>

GraceTicks == SESSION_GRACE_PERIOD * TicksPerSecond
FlushTicks == POST_DISCONNECT_FLUSH_DELAY * TicksPerSecond

None == <<>>
Some(x) == <<x>>
\* Python truthiness of an optional number or string
TruthyNum(o) == o # None /\ o[1] # 0
TruthyStr(o) == o # None /\ o[1] # <<>>
TruthyName(o) == o # None /\ o[1] # ""

\* ------------------------------------------------------------ the ports
Esp32Port ==
    [device |-> "/dev/ttyACM0", vid |-> Some(12346),
     manufacturer |-> Some(MANUFACTURER_NAME)]
OtherPort ==
    [device |-> "/dev/ttyUSB0", vid |-> Some(4292),
     manufacturer |-> Some(<<"S", "i", "l", "a", "b", "s">>)]

HexDigit(d) ==
    <<"0", "1", "2", "3", "4", "5", "6", "7",
      "8", "9", "a", "b", "c", "d", "e", "f">>[d + 1]

RECURSIVE HexDigits(_)
HexDigits(n) ==
    IF n < 16 THEN <<HexDigit(n)>>
    ELSE HexDigits(n \div 16) \o <<HexDigit(n % 16)>>

RECURSIVE ZeroPad(_, _)
ZeroPad(s, width) == IF Len(s) >= width THEN s ELSE ZeroPad(<<"0">> \o s, width)

\* format(vid, '04x')
Format04x(n) == ZeroPad(HexDigits(n), 4)

\* sub in s
Contains(s, sub) ==
    \E i \in 0..(Len(s) - Len(sub)) : SubSeq(s, i + 1, i + Len(sub)) = sub

PortMatches(port) ==
    /\ TruthyNum(port.vid)
    /\ TruthyStr(port.manufacturer)
    /\ Format04x(port.vid[1]) = VENDOR_ID
    /\ Contains(port.manufacturer[1], MANUFACTURER_NAME)

\* find_esp32_port returning the last matching port instead of the first
RECURSIVE find_esp32_port_Last(_)
find_esp32_port_Last(ps) ==
    IF ps = <<>> THEN None
    ELSE IF PortMatches(ps[Len(ps)]) THEN Some(ps[Len(ps)].device)
    ELSE find_esp32_port_Last(SubSeq(ps, 1, Len(ps) - 1))

RECURSIVE find_esp32_port(_)
find_esp32_port(ps) ==
    IF ps = <<>> THEN None
    ELSE IF PortMatches(Head(ps)) THEN Some(Head(ps).device)
    ELSE find_esp32_port(Tail(ps))

\* os.path.exists(port_name)
PathExists(ps, name) == \E i \in DOMAIN ps : ps[i].device = name

RemovePort(ps, name) == SelectSeq(ps, LAMBDA p : p.device # name)

\* ------------------------------------------------------------- variables
VARIABLES
    now,               \* time.time(), in ticks
    ports,             \* what comports() lists
    pc,                \* where the process is
    session_active,
    grace_period_end,
    port_name,
    stdout,            \* the last status line printed
    ser_open,          \* the serial channel of the invocation is open
    log_open,          \* the log file of the invocation is open
    disconnect_time,
    files,             \* names of the log files that exist
    log_file,          \* what the log file of the invocation holds
    issues,            \* the issue log
    rx,                \* bytes waiting in the channel (ser.in_waiting)
    sent,              \* bytes the device has sent to this channel
    link,              \* the device behind the open channel
    gone_at,           \* when that device disappeared
    at_gone            \* bytes that were waiting at that instant

vars == <<now, ports, pc, session_active, grace_period_end, port_name, stdout,
          ser_open, log_open, disconnect_time, files, log_file, issues,
          rx, sent, link, gone_at, at_gone>>

ctlVars == <<session_active, grace_period_end, port_name>>
capVars == <<ser_open, log_open, disconnect_time, files, log_file, issues>>
chanVars == <<rx, sent, link, gone_at, at_gone>>

Init ==
    /\ now = 1
    /\ ports = <<OtherPort>>
    /\ pc = "poll"
    /\ session_active = FALSE
    /\ grace_period_end = None
    /\ port_name = None
    /\ stdout = "none"
    /\ ser_open = FALSE
    /\ log_open = FALSE
    /\ disconnect_time = None
    /\ files = {}
    /\ log_file = <<>>
    /\ issues = <<>>
    /\ rx = <<>>
    /\ sent = 0
    /\ link = "none"
    /\ gone_at = None
    /\ at_gone = {}

\* ------------------------------------------------------- the controller
\* Located with the continuation branch leaving the deadline in place
Located_KeepsDeadline(active, grace, t) ==
    IF active
    THEN IF TruthyNum(grace) /\ t <= grace[1]
         THEN [active |-> active, grace |-> grace, line |-> "reappeared_within"]
         ELSE [active |-> TRUE, grace |-> None, line |-> "reappeared_after"]
    ELSE [active |-> TRUE, grace |-> grace, line |-> "detected"]

\* Located with the deadline itself counted as too late
Located_StrictlyBefore(active, grace, t) ==
    IF active
    THEN IF TruthyNum(grace) /\ t < grace[1]
         THEN [active |-> active, grace |-> None, line |-> "reappeared_within"]
         ELSE [active |-> TRUE, grace |-> None, line |-> "reappeared_after"]
    ELSE [active |-> TRUE, grace |-> grace, line |-> "detected"]

\* Located with the first detection leaving the session inactive
Located_DetectedStaysInactive(active, grace, t) ==
    IF active
    THEN IF TruthyNum(grace) /\ t <= grace[1]
         THEN [active |-> active, grace |-> None, line |-> "reappeared_within"]
         ELSE [active |-> TRUE, grace |-> None, line |-> "reappeared_after"]
    ELSE [active |-> active, grace |-> grace, line |-> "detected"]

\* Located with a late reappearance ending the session
Located_LateEndsSession(active, grace, t) ==
    IF active
    THEN IF TruthyNum(grace) /\ t <= grace[1]
         THEN [active |-> active, grace |-> None, line |-> "reappeared_within"]
         ELSE [active |-> FALSE, grace |-> None, line |-> "reappeared_after"]
    ELSE [active |-> TRUE, grace |-> grace, line |-> "detected"]

\* Located with the new-session branch leaving the deadline in place
Located_NewSessionKeepsDeadline(active, grace, t) ==
    IF active
    THEN IF TruthyNum(grace) /\ t <= grace[1]
         THEN [active |-> active, grace |-> None, line |-> "reappeared_within"]
         ELSE [active |-> TRUE, grace |-> grace, line |-> "reappeared_after"]
    ELSE [active |-> TRUE, grace |-> grace, line |-> "detected"]

\* main(), lines 83-98: the device is located at time t
Located(active, grace, t) ==
    IF active
    THEN IF TruthyNum(grace) /\ t <= grace[1]
         THEN [active |-> active, grace |-> None, line |-> "reappeared_within"]
         ELSE [active |-> TRUE, grace |-> None, line |-> "reappeared_after"]
    ELSE [active |-> TRUE, grace |-> grace, line |-> "detected"]

\* Absent with the session expiring already at the deadline
Absent_ExpiresAtDeadline(active, grace, t) ==
    IF active /\ grace = None
    THEN [active |-> active, grace |-> Some(t + GraceTicks), line |-> "grace_start"]
    ELSE IF active /\ t >= grace[1]
    THEN [active |-> FALSE, grace |-> None, line |-> "grace_expired"]
    ELSE [active |-> active, grace |-> grace, line |-> ""]

\* Absent with every waiting tick pushing the deadline out
Absent_ExtendsDeadline(active, grace, t) ==
    IF active /\ grace = None
    THEN [active |-> active, grace |-> Some(t + GraceTicks), line |-> "grace_start"]
    ELSE IF active /\ t > grace[1]
    THEN [active |-> FALSE, grace |-> None, line |-> "grace_expired"]
    ELSE IF active
    THEN [active |-> active, grace |-> Some(t + GraceTicks), line |-> ""]
    ELSE [active |-> active, grace |-> grace, line |-> ""]

\* Absent with a deadline started whether or not a session is active
Absent_GraceWithoutSession(active, grace, t) ==
    IF grace = None
    THEN [active |-> active, grace |-> Some(t + GraceTicks), line |-> "grace_start"]
    ELSE IF active /\ t > grace[1]
    THEN [active |-> FALSE, grace |-> None, line |-> "grace_expired"]
    ELSE [active |-> active, grace |-> grace, line |-> ""]

\* Absent with no expiry
Absent_NeverExpires(active, grace, t) ==
    IF active /\ grace = None
    THEN [active |-> active, grace |-> Some(t + GraceTicks), line |-> "grace_start"]
    ELSE [active |-> active, grace |-> grace, line |-> ""]

\* main(), lines 99-106: the device is not located at time t
Absent(active, grace, t) ==
    IF active /\ grace = None
    THEN [active |-> active, grace |-> Some(t + GraceTicks), line |-> "grace_start"]
    ELSE IF active /\ t > grace[1]
    THEN [active |-> FALSE, grace |-> None, line |-> "grace_expired"]
    ELSE [active |-> active, grace |-> grace, line |-> ""]

\* one pass of the loop of main() up to the call of start_logging_session
TickLocated ==
    /\ pc = "poll"
    /\ TruthyName(find_esp32_port(ports))
    /\ LET r == Located(session_active, grace_period_end, now)
       IN /\ port_name' = find_esp32_port(ports)
          /\ session_active' = r.active
          /\ grace_period_end' = r.grace
          /\ stdout' = r.line
    /\ pc' = "open"
    /\ UNCHANGED <<now, ports, capVars, chanVars>>

\* one pass of the loop of main() that finds no device
TickAbsent ==
    /\ pc = "poll"
    /\ ~TruthyName(find_esp32_port(ports))
    /\ LET r == Absent(session_active, grace_period_end, now)
       IN /\ port_name' = find_esp32_port(ports)
          /\ session_active' = r.active
          /\ grace_period_end' = r.grace
          /\ stdout' = IF r.line = "" THEN stdout ELSE r.line
    /\ pc' = "sleep"
    /\ UNCHANGED <<now, ports, capVars, chanVars>>

\* comports() raises: nothing in find_esp32_port or main catches it
EnumerationRaises ==
    /\ pc = "poll"
    /\ pc' = "crashed"
    /\ stdout' = "traceback"
    /\ UNCHANGED <<now, ports, ctlVars, capVars, chanVars>>

\* time.sleep(GRACE_CHECK_INTERVAL)
Sleep ==
    /\ pc = "sleep"
    /\ \E d \in 1..(1 + MaxJitter) :
          /\ now + d <= MaxTime
          /\ now' = now + d
    /\ pc' = "poll"
    /\ UNCHANGED <<ports, ctlVars, stdout, ser_open, log_open, disconnect_time,
                   files, log_file, issues, chanVars>>

\* ------------------------------------------------- start_logging_session
\* datetime.now().strftime(...): the stamp has a resolution of one second
Timestamp(t) == t \div TicksPerSecond

\* the k-th byte the device sends: text, with every second byte one that is
\* not valid UTF-8
DeviceByte(k) == [id |-> k, valid |-> k % 2 = 1]

\* bytes.decode(errors='replace'): an invalid byte becomes U+FFFD
DecodeByte(b) == [id |-> b.id, ch |-> IF b.valid THEN "text" ELSE "U+FFFD"]
Decode(data) == [i \in DOMAIN data |-> DecodeByte(data[i])]

\* log_issue(message): one line, stamped to the second, is appended
log_issue(log, t, message) ==
    Append(log, [timestamp |-> Timestamp(t), message |-> message])

\* WithExit without the with statement: nothing is closed
WithExit_Leak == UNCHANGED <<ser_open, log_open>>

\* leaving the with block of line 51, on return or on an exception
WithExit ==
    /\ ser_open' = FALSE
    /\ log_open' = FALSE

\* the invocation is over: its locals, its file object and its channel are gone
Release ==
    /\ disconnect_time' = None
    /\ log_file' = <<>>
    /\ rx' = <<>>
    /\ sent' = 0
    /\ link' = "none"
    /\ gone_at' = None
    /\ at_gone' = {}

\* lines 69-71: the handler, after the with block was left; e is the text of
\* the exception, which line 71 prints.  log_issue opens and writes the issue
\* log itself, and nothing catches its failure.
Except(e) ==
    /\ WithExit
    /\ Release
    /\ \/ /\ issues' = log_issue(issues, now, "Error during logging session")
          /\ stdout' = e
          /\ pc' = "sleep"
       \/ /\ issues' = issues
          /\ stdout' = "traceback"
          /\ pc' = "crashed"

\* lines 47-51, both opens succeed
OpenOk ==
    /\ pc = "open"
    /\ PathExists(ports, port_name[1])
    /\ stdout' = "logging_to"
    /\ ser_open' = TRUE
    /\ log_open' = TRUE
    /\ files' = files \cup {Timestamp(now)}
    /\ log_file' = <<>>
    /\ disconnect_time' = None
    /\ rx' = <<>>
    /\ sent' = 0
    /\ link' = "live"
    /\ gone_at' = None
    /\ at_gone' = {}
    /\ pc' = "loop"
    /\ UNCHANGED <<now, ports, ctlVars, issues>>

\* lines 47-51, serial.Serial(...) or open(log_filename, 'w') raises
OpenFails ==
    /\ pc = "open"
    /\ Len(issues) < MaxIssues
    /\ Except("error: open")
    /\ UNCHANGED <<now, ports, ctlVars, files>>

\* lines 57-60 and 64-67: if ser.in_waiting: read, decode, write, flush
Drain ==
    IF rx # <<>>
    THEN /\ log_file' = log_file \o Decode(rx)
         /\ rx' = <<>>
    ELSE UNCHANGED <<log_file, rx>>

\* time.sleep(0.01): it returns within the same tick or in the next one
ShortSleep ==
    \E d \in 0..1 :
       /\ now + d <= MaxTime
       /\ now' = now + d

\* lines 52-53 and 64-67: the device path exists
CaptureIter ==
    /\ pc = "loop"
    /\ PathExists(ports, port_name[1])
    /\ Drain
    /\ pc' = "nap"
    /\ UNCHANGED <<now, ports, ctlVars, stdout, ser_open, log_open,
                   disconnect_time, files, issues, sent, link, gone_at, at_gone>>

\* line 68
Nap ==
    /\ pc = "nap"
    /\ ShortSleep
    /\ pc' = "loop"
    /\ UNCHANGED <<ports, ctlVars, stdout, capVars, chanVars>>

\* lines 53-55: the device path is gone
Detect ==
    /\ pc = "loop"
    /\ ~PathExists(ports, port_name[1])
    /\ stdout' = "disconnected"
    /\ disconnect_time' = Some(now)
    /\ pc' = "flush"
    /\ UNCHANGED <<now, ports, ctlVars, ser_open, log_open, files, log_file,
                   issues, chanVars>>

\* the window measured from a clock restarted on every pass
InFlushWindow_Restarted == now - now < FlushTicks

\* line 56
InFlushWindow == now - disconnect_time[1] < FlushTicks

\* FlushIter that only waits
FlushIter_NoDrain ==
    /\ pc = "flush"
    /\ InFlushWindow
    /\ ShortSleep
    /\ UNCHANGED <<ports, pc, ctlVars, stdout, capVars, chanVars>>

\* FlushIter that does not look at the clock
FlushIter_NoWindowCheck ==
    /\ pc = "flush"
    /\ Drain
    /\ ShortSleep
    /\ UNCHANGED <<ports, pc, ctlVars, stdout, ser_open, log_open,
                   disconnect_time, files, issues, sent, link, gone_at, at_gone>>

\* lines 56-61
FlushIter ==
    /\ pc = "flush"
    /\ InFlushWindow
    /\ Drain
    /\ ShortSleep
    /\ UNCHANGED <<ports, pc, ctlVars, stdout, ser_open, log_open,
                   disconnect_time, files, issues, sent, link, gone_at, at_gone>>

\* lines 56, 62-63
FlushExpire ==
    /\ pc = "flush"
    /\ ~InFlushWindow
    /\ stdout' = "final_expired"
    /\ WithExit
    /\ Release
    /\ pc' = "sleep"
    /\ UNCHANGED <<now, ports, ctlVars, files, issues>>

\* the place of the loops where the next statement is an I/O call
AtIO ==
    \/ pc = "loop" /\ PathExists(ports, port_name[1])
    \/ pc = "flush" /\ InFlushWindow

\* ser.in_waiting or ser.read raises
ReadFails ==
    /\ AtIO
    /\ Len(issues) < MaxIssues
    /\ Except("error: read")
    /\ UNCHANGED <<now, ports, ctlVars, files>>

\* log_file.write or log_file.flush raises: the bytes read are not written
WriteFails ==
    /\ AtIO
    /\ Len(issues) < MaxIssues
    /\ rx # <<>>
    /\ Except("error: write")
    /\ UNCHANGED <<now, ports, ctlVars, files>>

\* ------------------------------------------------------ the environment
Plug ==
    /\ pc # "crashed"
    /\ ~PathExists(ports, Esp32Port.device)
    /\ ports' = Append(ports, Esp32Port)
    /\ UNCHANGED <<now, pc, ctlVars, stdout, ser_open, log_open,
                   disconnect_time, files, log_file, issues, chanVars>>

Unplug ==
    /\ pc # "crashed"
    /\ PathExists(ports, Esp32Port.device)
    /\ ports' = RemovePort(ports, Esp32Port.device)
    /\ IF ser_open /\ link = "live"
       THEN /\ link' = "gone"
            /\ gone_at' = Some(now)
            /\ at_gone' = {rx[i].id : i \in DOMAIN rx}
       ELSE UNCHANGED <<link, gone_at, at_gone>>
    /\ UNCHANGED <<now, pc, ctlVars, stdout, ser_open, log_open,
                   disconnect_time, files, log_file, issues, rx, sent>>

\* a byte reaches the open channel, also a late one after the device is gone
Receive ==
    /\ ser_open
    /\ sent < MaxBytes
    /\ rx' = Append(rx, DeviceByte(sent + 1))
    /\ sent' = sent + 1
    /\ UNCHANGED <<now, ports, pc, ctlVars, stdout, ser_open, log_open,
                   disconnect_time, files, log_file, issues,
                   link, gone_at, at_gone>>

Next ==
    \/ TickLocated
    \/ TickAbsent
    \/ EnumerationRaises
    \/ Sleep
    \/ OpenOk
    \/ OpenFails
    \/ CaptureIter
    \/ Nap
    \/ Detect
    \/ FlushIter
    \/ FlushExpire
    \/ ReadFails
    \/ WriteFails
    \/ Plug
    \/ Unplug
    \/ Receive

Spec == Init /\ [][Next]_vars

\* The process is one thread that blocks nowhere in these loops, so the
\* statement it is at eventually runs, and time.sleep() returns with the
\* clock advanced: each tick of main is taken, and the flush window loop
\* sees time pass and takes its exit once the window is over.
FairSpec ==
    /\ Spec
    /\ WF_vars(TickLocated \/ TickAbsent)
    /\ WF_vars(Sleep)
    /\ WF_vars(FlushIter /\ now' > now)
    /\ WF_vars(FlushExpire)

\* ------------------------------------------- find_esp32_port on any list
\* what a ListPortInfo can carry in vid, manufacturer and device
VidValues == {None, Some(0), Some(12346), Some(4292), Some(77882)}

ManufacturerValues ==
    {None, Some(<<>>), Some(MANUFACTURER_NAME),
     Some(<<"X">> \o MANUFACTURER_NAME \o <<" ", "S">>),
     Some(<<"e", "s", "p", "r", "e", "s", "s", "i", "f">>),
     Some(<<"E", "s", "p", "r", "e", "s", "s", "o">>)}

DeviceValues == {"/dev/ttyACM0", "/dev/ttyUSB0"}

PortValues ==
    [device : DeviceValues, vid : VidValues, manufacturer : ManufacturerValues]

PortLists == UNION {[1..n -> PortValues] : n \in 0..MaxPorts}

\* main() started with any list of visible ports
LocateInit ==
    /\ ports \in PortLists
    /\ now = 1
    /\ pc = "poll"
    /\ session_active = FALSE
    /\ grace_period_end = None
    /\ port_name = None
    /\ stdout = "none"
    /\ ser_open = FALSE
    /\ log_open = FALSE
    /\ disconnect_time = None
    /\ files = {}
    /\ log_file = <<>>
    /\ issues = <<>>
    /\ rx = <<>>
    /\ sent = 0
    /\ link = "none"
    /\ gone_at = None
    /\ at_gone = {}

\* port_name = find_esp32_port(), line 81, and nothing after it
LocateNext ==
    \/ TickLocated
    \/ TickAbsent

LocateSpec == LocateInit /\ [][LocateNext]_vars

\* ================================================================ claims
LogIds(text) == {text[i].id : i \in DOMAIN text}
Capturing == pc \in {"loop", "nap", "flush"}
DeviceLocatedNow == TruthyName(find_esp32_port(ports))

\* C1: in every reachable state the grace deadline is set if and only if the
\* session is active and the latest locate found no device.
C1_DeadlineIffActiveAndNotLocated ==
    (grace_period_end # None) <=> (session_active /\ port_name = None)

C1_Witness ==
    /\ grace_period_end # None
    /\ session_active
    /\ port_name = None
    /\ pc = "sleep"

\* C2: on a tick that does not locate the device while a deadline is set,
\* the session is marked inactive and the deadline cleared when now > deadline,
\* and session and deadline are left as they are when now <= deadline.
C2_ExpiresAtFirstTickPastDeadline ==
    [][(pc = "poll" /\ pc' = "sleep" /\ grace_period_end # None)
         => IF now > grace_period_end[1]
            THEN ~session_active' /\ grace_period_end' = None
            ELSE /\ session_active' = session_active
                 /\ grace_period_end' = grace_period_end]_vars

C2_Witness ==
    /\ pc = "sleep"
    /\ stdout = "grace_expired"
    /\ ~session_active
    /\ grace_period_end = None

\* C3 as stated: a tick that locates the device while a deadline is set takes
\* the continuation branch when now <= deadline, and when now > deadline the
\* session has been marked inactive by the time the capture invocation starts.
C3_Stated ==
    [][(pc = "poll" /\ pc' = "open" /\ grace_period_end # None)
         => IF now <= grace_period_end[1]
            THEN stdout' = "reappeared_within"
            ELSE ~session_active \/ ~session_active']_vars

\* C3 as amended: such a tick takes the continuation branch when
\* now <= deadline and the new-session branch when now > deadline; in both the
\* deadline is cleared and session_active stays true (it is never made false).
C3_BranchByDeadline ==
    [][(pc = "poll" /\ pc' = "open" /\ grace_period_end # None)
         => /\ stdout' = IF now <= grace_period_end[1]
                          THEN "reappeared_within" ELSE "reappeared_after"
            /\ session_active /\ session_active'
            /\ grace_period_end' = None]_vars

C3_Witness ==
    /\ pc = "poll"
    /\ DeviceLocatedNow
    /\ session_active
    /\ grace_period_end # None
    /\ now > grace_period_end[1]

\* C4: the "reappeared after grace period, new session" branch is taken only
\* when a grace deadline was set and has already passed.
C4_NewSessionOnlyPastDeadline ==
    [][(pc = "poll" /\ pc' = "open" /\ stdout' = "reappeared_after")
         => (grace_period_end # None /\ now > grace_period_end[1])]_vars

\* C5: at a poll tick the combination "session active, no grace deadline,
\* device located" is never observed.
C5_NeverLocatedWhileActiveWithoutDeadline ==
    (pc = "poll" /\ session_active /\ grace_period_end = None)
        => ~DeviceLocatedNow

\* C6: an error of the port enumeration is swallowed: the tick is processed
\* as device-absent and the loop goes on to its sleep.
C6_EnumerationErrorSwallowed ==
    [][EnumerationRaises => (pc' = "sleep" /\ port_name' = None)]_vars

\* C7: an I/O failure inside a capture invocation adds one stamped line to
\* the issue log and the controller resumes polling.
C7_FailureLoggedAndSurvived ==
    [][(OpenFails \/ ReadFails \/ WriteFails)
         => /\ Len(issues') = Len(issues) + 1
            /\ issues'[Len(issues')].timestamp = Timestamp(now)
            /\ pc' = "sleep"]_vars

C9_Stated ==
    [][(Len(log_file') > Len(log_file) /\ pc = "flush")
         => now - gone_at[1] < FlushTicks]_vars

\* C9 as amended: in the flush window nothing is appended to the log by a
\* pass that begins once POST_DISCONNECT_FLUSH_DELAY has elapsed since the
\* disappearance was detected (disconnect_time).
C9_NoWritePastWindow ==
    [][(Len(log_file') > Len(log_file) /\ pc = "flush")
         => now - disconnect_time[1] < FlushTicks]_vars

C9_Witness ==
    /\ pc = "flush"
    /\ ~InFlushWindow
    /\ \E i \in DOMAIN log_file : log_file[i].id \notin at_gone
    /\ sent = Len(log_file)
    /\ at_gone = {}

\* C10: outside a capture invocation neither the serial channel nor the log
\* file is open: every exit path has closed both.
C10_ClosedOnEveryExit ==
    ~Capturing => (~ser_open /\ ~log_open)

C10_Witness ==
    /\ pc = "sleep"
    /\ stdout = "error: write"
    /\ issues # <<>>
    /\ ~ser_open
    /\ ~log_open
\* C11: a channel and a log file are opened only while none is open, so at
\* most one of each is open at any instant, and find_esp32_port is called
\* only while none is open.
C11_OneInvocationAtATime ==
    [][/\ (pc = "open" /\ pc' # "open") => (~ser_open /\ ~log_open)
       /\ (pc = "poll" /\ pc' # "poll") => (~ser_open /\ ~log_open)
       /\ (ser_open' \/ log_open') => Capturing']_vars

C11_Witness ==
    /\ pc = "loop"
    /\ ser_open
    /\ log_open
    /\ Cardinality(files) >= 2

\* C12: a capture invocation never opens a log file that an earlier
\* invocation of the process created.
C12_FreshLogFile ==
    [][(pc = "open" /\ log_open') => Timestamp(now) \notin files]_vars

\* C13: an absent tick of an active session with no deadline sets the
\* deadline to now + grace period, and a set deadline never changes except
\* that a tick clears it: one that locates the device, or one past it.
C13_DeadlineSetOnce ==
    [][/\ (pc = "poll" /\ pc' = "sleep" /\ session_active
              /\ grace_period_end = None)
          => grace_period_end' = Some(now + GraceTicks)
       /\ (grace_period_end # None /\ grace_period_end' # grace_period_end)
          => /\ grace_period_end' = None
             /\ pc = "poll"
             /\ pc' = "open" \/ now > grace_period_end[1]]_vars

C13_Witness ==
    /\ pc = "sleep"
    /\ session_active
    /\ grace_period_end # None
    /\ now >= grace_period_end[1] - GraceTicks + 5
    /\ now <= grace_period_end[1]

\* C14: the process starts inactive with no deadline and no log file, and
\* stays so over every step that is not a tick locating the device.
InactiveIdle ==
    /\ ~session_active
    /\ grace_period_end = None
    /\ files = {}
    /\ pc \in {"poll", "sleep", "crashed"}

C14_IdleUntilLocated ==
    /\ InactiveIdle
    /\ [][(InactiveIdle /\ ~(pc = "poll" /\ DeviceLocatedNow /\ pc' = "open"))
            => InactiveIdle']_vars

C14_Witness ==
    /\ InactiveIdle
    /\ pc = "poll"
    /\ stdout = "none"
    /\ now >= 3 * TicksPerSecond

\* C17: a tick at which find_esp32_port returns a device starts a capture
\* invocation with the session active and the deadline cleared, and an
\* invocation starts from nowhere but a tick.
C17_LocatedTickStartsCapture ==
    [][/\ (pc = "poll" /\ DeviceLocatedNow /\ pc' \notin {"poll", "crashed"})
          => (pc' = "open" /\ session_active' /\ grace_period_end' = None)
       /\ (pc' = "open" /\ pc # "open") => (pc = "poll" /\ DeviceLocatedNow)]_vars

C17_Witness ==
    /\ pc = "open"
    /\ stdout = "reappeared_within"
    /\ session_active
    /\ grace_period_end = None

\* C18: the session goes from active to inactive only on a tick that does
\* not locate the device, with a deadline set and now > deadline.
C18_InactiveOnlyByExpiry ==
    [][(session_active /\ ~session_active')
         => /\ pc = "poll"
            /\ pc' = "sleep"
            /\ ~DeviceLocatedNow
            /\ grace_period_end # None
            /\ now > grace_period_end[1]]_vars

C18_Witness ==
    /\ pc = "poll"
    /\ ~session_active
    /\ stdout = "grace_expired"
    /\ issues # <<>>

\* C19: a set deadline implies that the session is active and that no
\* capture invocation is running or about to start.
C19_DeadlineImpliesActiveAndIdle ==
    (grace_period_end # None)
        => (session_active /\ ~Capturing /\ pc # "open")

C19_Witness ==
    /\ pc = "poll"
    /\ ~DeviceLocatedNow
    /\ grace_period_end # None
    /\ now = grace_period_end[1]
\* C16: find_esp32_port returns the device of the first port, in list
\* order, whose vendor id is the configured number and whose manufacturer
\* contains the configured substring, and None exactly when there is none.
VendorIdNumber == 12346

MatchingPorts(ps) ==
    {i \in DOMAIN ps :
        /\ ps[i].vid = Some(VendorIdNumber)
        /\ ps[i].manufacturer # None
        /\ Contains(ps[i].manufacturer[1], MANUFACTURER_NAME)}

FirstMatch(ps) ==
    IF MatchingPorts(ps) = {} THEN None
    ELSE Some(ps[CHOOSE i \in MatchingPorts(ps) :
                     \A j \in MatchingPorts(ps) : i <= j].device)

C16_LocateReturnsFirstMatch ==
    [][(pc = "poll" /\ pc' # "poll" /\ pc' # "crashed")
         => port_name' = FirstMatch(ports)]_vars

C16_Witness ==
    /\ pc = "open"
    /\ Len(ports) = 2
    /\ MatchingPorts(ports) = {1, 2}
    /\ ports[1].device # ports[2].device
    /\ port_name = Some(ports[1].device)
\* C15: once the capture loop has seen the device path gone, the invocation
\* is never in the flush window loop later than the end of the window, and
\* it returns to main (the clock of the model permitting the window to end).
C15_ReturnsAfterFlushWindow ==
    /\ [](pc = "flush" => now - disconnect_time[1] <= FlushTicks)
    /\ (pc = "flush" /\ disconnect_time[1] + FlushTicks <= MaxTime)
          ~> ~Capturing

C15_Witness ==
    /\ pc = "sleep"
    /\ stdout = "final_expired"
    /\ session_active
    /\ ~ser_open
    /\ ~log_open

\* C20: an active session whose main loop only ticks, with no capture
\* invocation and no tick locating a device, reaches session inactive with
\* no deadline (the clock of the model permitting the deadline to pass),
\* and stays there as long as main only ticks.
Inactive == ~session_active /\ grace_period_end = None

DeadlineWithinClock ==
    IF grace_period_end # None
    THEN grace_period_end[1] < MaxTime
    ELSE now + 1 + MaxJitter + GraceTicks < MaxTime

C20_EventuallyInactive ==
    /\ (session_active /\ pc \in {"poll", "sleep"} /\ DeadlineWithinClock)
          ~> (Inactive \/ pc \in {"open", "crashed"})
    /\ [][(Inactive /\ pc \in {"poll", "sleep"} /\ pc' \in {"poll", "sleep"})
            => Inactive']_vars

C20_Witness ==
    /\ pc = "poll"
    /\ stdout = "grace_expired"
    /\ Inactive
    /\ ~DeviceLocatedNow
    /\ files # {}
====
